---------------------------- MODULE Spec2Model ----------------------------
(***************************************************************************)
(* ticktools: debounce, throttle, wait and retry (src/src/core/types.ts).  *)
(*                                                                         *)
(* RetrySpec models one call of retry(fn, options): the async function is  *)
(* cut at its two await points (await fn(), await wait(delayMs)); the code *)
(* between two awaits runs to completion on the single JavaScript thread   *)
(* and is one action.  DebounceSpec models the wrappers returned by        *)
(* debounce(fn, delay) together with the runtime's timer facility.         *)
(***************************************************************************)
EXTENDS Integers, Sequences, FiniteSets, TLC

(***************************************************************************)
(* Bounds of the model.                                                    *)
(***************************************************************************)
MaxRetries == 3      \* options.retries ranges over -1..MaxRetries
MaxDelayMs == 1      \* an explicit options.delayMs ranges over 0..MaxDelayMs
MaxDelay == 2        \* an explicit debounce delay ranges over 0..MaxDelay
MaxTime == 3         \* the clock runs from 0 to MaxTime
MaxCalls == 3        \* calls made to the debounced wrappers, in total
MaxInterval == 2     \* an explicit throttle interval ranges over 0..MaxInterval
MaxClock == 4        \* Date.now() ranges over 0..MaxClock
MaxThrottleCalls == 3 \* calls made to the throttled wrappers, in total
MaxWaitMs == 2       \* the argument of wait(ms) ranges over -1..MaxWaitMs
MaxWaits == 2        \* calls of wait(ms)

Values == {"v1", "v2"}        \* success values fn may resolve with
Errors == {"e1", "e2"}        \* failure values fn may reject/throw with
Wrappers == {"w1", "w2"}      \* wrappers made by debounce(fn, delay), same arguments
Throttled == {"t1", "t2"}     \* wrappers made by throttle(fn, interval), same arguments
Args == {"a", "b"}            \* argument lists a wrapper may be called with
Null == 0                     \* timeoutId before the first call
Undefined == <<>>             \* an omitted optional field
Given(x) == <<x>>             \* an optional field that is present
PredError == "predicateError" \* what a throwing shouldRetry throws
Unexpected == "Retry failed unexpectedly"

VARIABLES
    options,    \* the RetryOptions record passed to retry
    pc,         \* where the retry call is: start, awaitFn, awaitWait, done
    attempt,    \* let attempt (line 78)
    log,        \* history: what the call has done so far, in order
    inFlight,   \* promises returned by fn() that have not settled yet
    outcomes    \* settlements of the promise returned by retry

retryVars == <<options, pc, attempt, log, inFlight, outcomes>>

VARIABLES
    delayArg,   \* the delay argument of debounce(fn, delay), possibly omitted
    now,        \* the runtime's clock, in ms
    timers,     \* the runtime's scheduled, not yet run and not cancelled callbacks
    nextHandle, \* the handle the next setTimeout returns
    timeoutId,  \* let timeoutId (line 21) of each wrapper's closure; 0 is null
    calls,      \* history: the calls of the wrappers
    execs       \* history: the executions of fn

debounceVars == <<delayArg, now, timers, nextHandle, timeoutId, calls, execs>>

VARIABLES
    intervalArg, \* the interval argument of throttle(fn, interval), possibly omitted
    lastTime,    \* let lastTime (line 41) of each throttled wrapper's closure
    stack,       \* the accepted throttled calls whose fn is still running, innermost last
    tcalls,      \* history: the calls of the throttled wrappers
    texecs,      \* history: the executions of fn by the throttled wrappers
    raised       \* the latest throttled call that ended by fn's exception; 0 if none

throttleVars == <<intervalArg, lastTime, stack, tcalls, texecs, raised>>

VARIABLES
    promises     \* the promises returned by the calls of wait(ms), in call order

waitVars == <<promises>>

vars == <<retryVars, debounceVars, throttleVars, waitVars>>

(***************************************************************************)
(* RetryOptions and the destructuring with defaults of line 76.            *)
(***************************************************************************)
Verdicts == {"true", "false", "throw"}

RetryOptions ==
    [retries     : (0 - 1)..MaxRetries,
     delayMs     : {Undefined} \cup {Given(d) : d \in 0..MaxDelayMs},
     shouldRetry : {Undefined} \cup {Given(f) : f \in [Errors -> Verdicts]}]

retries == options.retries

DefaultDelayMs == 1000

delayMs == IF options.delayMs = Undefined THEN DefaultDelayMs ELSE options.delayMs[1]

DefaultShouldRetry == [e \in Errors |-> "true"]

shouldRetry ==
    IF options.shouldRetry = Undefined THEN DefaultShouldRetry ELSE options.shouldRetry[1]

(***************************************************************************)
(* History events.                                                         *)
(***************************************************************************)
Ev(kind, val, ms) == [ev |-> kind, val |-> val, ms |-> ms]

EvCall       == Ev("call", "", 0)          \* fn() is invoked
EvResolve(v) == Ev("resolve", v, 0)        \* fn's promise fulfils with v
EvReject(e)  == Ev("reject", e, 0)         \* fn throws / its promise rejects with e
EvPred(e)    == Ev("shouldRetry", e, 0)    \* shouldRetry(e) is evaluated
EvWait(ms)   == Ev("wait", "", ms)         \* wait(ms) is called
EvWake       == Ev("wake", "", 0)          \* the wait's timer fired
EvReturn(v)  == Ev("return", v, 0)         \* retry's promise fulfils with v
EvThrow(e)   == Ev("throw", e, 0)          \* retry's promise rejects with e

RECURSIVE CountEv(_, _)
CountEv(s, kind) ==
    IF s = <<>> THEN 0
    ELSE (IF Head(s).ev = kind THEN 1 ELSE 0) + CountEv(Tail(s), kind)

fnCalls   == CountEv(log, "call")
waits     == CountEv(log, "wait")
predCalls == CountEv(log, "shouldRetry")

(***************************************************************************)
(* retry, lines 72-92.                                                     *)
(***************************************************************************)
\* retry(fn, options) has just been called; no debounced wrapper is in use
RetryInit ==
    /\ options \in RetryOptions
    /\ pc = "start"
    /\ attempt = 0
    /\ log = <<>>
    /\ inFlight = 0
    /\ outcomes = <<>>
    /\ delayArg = Undefined
    /\ now = 0
    /\ timers = {}
    /\ nextHandle = 1
    /\ timeoutId = [w \in Wrappers |-> Null]
    /\ calls = <<>>
    /\ execs = <<>>
    /\ intervalArg = Undefined
    /\ lastTime = <<>>
    /\ stack = <<>>
    /\ tcalls = <<>>
    /\ texecs = <<>>
    /\ raised = 0
    /\ promises = <<>>

\* mutant: the loop written as do ... while, its body runs before the guard is read
LoopGuardAfterBody(a, r) == a <= r \/ a = 0

\* mutant: the guard written with < instead of <=
LoopGuardStrict(a, r) == a < r

\* while (attempt <= retries), line 79
LoopGuard(a, r) == a <= r

\* mutant: the budget test off by one
BudgetExhaustedEarly(a, r) == a + 1 >= r

\* attempt === retries, first operand of line 83
BudgetExhausted(a, r) == a = r

\* mutant: the counter advances by two
NextAttemptByTwo(a) == a + 2

\* attempt++, line 86
NextAttempt(a) == a + 1

\* The top of the loop, reached from the start of the call and from the
\* resumption after await wait(delayMs): the guard of line 79, then either the
\* invocation of fn (line 81) or the throw after the loop (line 91).
LoopHead(history) ==
    IF LoopGuard(attempt, retries)
    THEN /\ pc' = "awaitFn"
         /\ log' = Append(history, EvCall)
         /\ inFlight' = inFlight + 1
         /\ outcomes' = outcomes
    ELSE /\ pc' = "done"
         /\ log' = Append(history, EvThrow(Unexpected))
         /\ inFlight' = inFlight
         /\ outcomes' = Append(outcomes, [kind |-> "failure", val |-> Unexpected])

\* retry is called: lines 76-81 up to the first await
Start ==
    /\ pc = "start"
    /\ LoopHead(log)
    /\ UNCHANGED <<options, attempt>>
    /\ UNCHANGED debounceVars
    /\ UNCHANGED <<throttleVars, waitVars>>

\* await fn() fulfils with v: return v (line 81)
FnResolves(v) ==
    /\ pc = "awaitFn"
    /\ pc' = "done"
    /\ inFlight' = inFlight - 1
    /\ log' = log \o <<EvResolve(v), EvReturn(v)>>
    /\ outcomes' = Append(outcomes, [kind |-> "success", val |-> v])
    /\ UNCHANGED <<options, attempt>>
    /\ UNCHANGED debounceVars
    /\ UNCHANGED <<throttleVars, waitVars>>

\* mutant: the delay is taken before the failure is surfaced
RethrowAfterWait(history, error) ==
    /\ pc' = "done"
    /\ inFlight' = inFlight - 1
    /\ log' = history \o <<EvWait(delayMs), EvWake, EvThrow(error)>>
    /\ outcomes' = Append(outcomes, [kind |-> "failure", val |-> error])
    /\ attempt' = attempt

\* throw error (line 84): the call ends with the caught value
Rethrow(history, error) ==
    /\ pc' = "done"
    /\ inFlight' = inFlight - 1
    /\ log' = Append(history, EvThrow(error))
    /\ outcomes' = Append(outcomes, [kind |-> "failure", val |-> error])
    /\ attempt' = attempt

\* mutant: wait(delayMs) is called but not awaited, the loop goes on at once
RetryWithoutAwait(history) ==
    /\ pc' = "awaitFn"
    /\ inFlight' = inFlight
    /\ attempt' = NextAttempt(attempt)
    /\ log' = history \o <<EvWait(delayMs), EvCall>>
    /\ outcomes' = outcomes

\* mutant: the promise of wait never resolves
RetryNeverResumes(history) ==
    /\ pc' = "awaitForever"
    /\ inFlight' = inFlight - 1
    /\ attempt' = NextAttempt(attempt)
    /\ log' = Append(history, EvWait(delayMs))
    /\ outcomes' = outcomes

\* lines 86-87: attempt++ and the call of wait(delayMs), up to the await
RetryLater(history) ==
    /\ pc' = "awaitWait"
    /\ inFlight' = inFlight - 1
    /\ attempt' = NextAttempt(attempt)
    /\ log' = Append(history, EvWait(delayMs))
    /\ outcomes' = outcomes

\* mutant: an exception of shouldRetry is taken as the answer false
DecideSwallowing(verdict, asked, error) ==
    IF verdict = "true" THEN RetryLater(asked) ELSE Rethrow(asked, error)

\* what line 83 does with the value of shouldRetry(error)
Decide(verdict, asked, error) ==
    CASE verdict = "throw" -> Rethrow(asked, PredError)
      [] verdict = "false" -> Rethrow(asked, error)
      [] OTHER             -> RetryLater(asked)

\* mutant: && instead of || in line 83
CatchBlockAnd(history, error) ==
    IF BudgetExhausted(attempt, retries)
    THEN Decide(shouldRetry[error], Append(history, EvPred(error)), error)
    ELSE RetryLater(history)

\* mutant: the operands of || in line 83 swapped
CatchBlockPredicateFirst(history, error) ==
    LET asked == Append(history, EvPred(error))
    IN  IF shouldRetry[error] = "true" /\ BudgetExhausted(attempt, retries)
        THEN Rethrow(asked, error)
        ELSE Decide(shouldRetry[error], asked, error)

\* the catch block, lines 82-88, entered with the failure of fn: the budget
\* test first, shouldRetry(error) only if it is false
CatchBlock(history, error) ==
    IF BudgetExhausted(attempt, retries)
    THEN Rethrow(history, error)
    ELSE Decide(shouldRetry[error], Append(history, EvPred(error)), error)

\* fn() throws, or await fn() rejects, with e: the catch block runs
FnRejects(e) ==
    /\ pc = "awaitFn"
    /\ CatchBlock(Append(log, EvReject(e)), e)
    /\ UNCHANGED options
    /\ UNCHANGED debounceVars
    /\ UNCHANGED <<throttleVars, waitVars>>

\* the timer of wait(delayMs) fires and resolves its promise (line 57); the
\* loop continues at line 79
WaitResolves ==
    /\ pc = "awaitWait"
    /\ LoopHead(Append(log, EvWake))
    /\ UNCHANGED <<options, attempt>>
    /\ UNCHANGED debounceVars
    /\ UNCHANGED <<throttleVars, waitVars>>

RetryNext ==
    \/ Start
    \/ \E v \in Values : FnResolves(v)
    \/ \E e \in Errors : FnRejects(e)
    \/ WaitResolves

(***************************************************************************)
(* debounce, lines 17-26, and the timer facility it uses.                  *)
(***************************************************************************)

DefaultDelay == 300

\* delay = 300, line 19
delay == IF delayArg = Undefined THEN DefaultDelay ELSE delayArg[1]

\* debounce(fn, delay) has returned each wrapper; no retry call is running
DebounceInit ==
    /\ delayArg \in {Undefined} \cup {Given(d) : d \in 0..MaxDelay}
    /\ now = 0
    /\ timers = {}
    /\ nextHandle = 1
    /\ timeoutId = [w \in Wrappers |-> Null]
    /\ calls = <<>>
    /\ execs = <<>>
    /\ options = [retries |-> 0, delayMs |-> Undefined, shouldRetry |-> Undefined]
    /\ pc = "done"
    /\ attempt = 0
    /\ log = <<>>
    /\ inFlight = 0
    /\ outcomes = <<>>
    /\ intervalArg = Undefined
    /\ lastTime = <<>>
    /\ stack = <<>>
    /\ tcalls = <<>>
    /\ texecs = <<>>
    /\ raised = 0
    /\ promises = <<>>

\* mutant: the callback is scheduled with no delay
SetTimeoutAtOnce(tm, h, w, args, ms) ==
    tm \cup {[id |-> h, owner |-> w, args |-> args, due |-> now]}

\* setTimeout(() => fn(...args), ms) returning handle h: the callback of
\* wrapper w becomes due ms after the current time
SetTimeout(tm, h, w, args, ms) ==
    tm \cup {[id |-> h, owner |-> w, args |-> args, due |-> now + ms]}

\* clearTimeout(h): the callback with handle h, if still scheduled, never runs
ClearTimeout(tm, h) == {t \in tm : t.id # h}

\* mutant: one handle shared by all wrappers, a call cancels whatever is pending
CancelEverything(tm, h) == {}

\* mutant: the pending callback is not cancelled
CancelNothing(tm, h) == tm

\* if (timeoutId) clearTimeout(timeoutId), line 23
CancelPending(tm, h) == IF h # Null THEN ClearTimeout(tm, h) ELSE tm

\* the wrapper w is called with args: lines 22-25
DebouncedCall(w, args) ==
    /\ Len(calls) < MaxCalls
    /\ timers' = SetTimeout(CancelPending(timers, timeoutId[w]), nextHandle, w, args, delay)
    /\ timeoutId' = [timeoutId EXCEPT ![w] = nextHandle]
    /\ nextHandle' = nextHandle + 1
    /\ calls' = Append(calls, [w |-> w, args |-> args, t |-> now])
    /\ UNCHANGED <<delayArg, now, execs>>
    /\ UNCHANGED retryVars
    /\ UNCHANGED <<throttleVars, waitVars>>

\* the runtime runs a scheduled callback whose time has come: () => fn(...args)
\* of line 24.  A timer never fires early; it may fire late.
TimerFires(t) ==
    /\ t \in timers
    /\ t.due <= now
    /\ timers' = timers \ {t}
    /\ execs' = Append(execs, [w |-> t.owner, args |-> t.args, t |-> now, by |-> "timer"])
    /\ UNCHANGED <<delayArg, now, nextHandle, timeoutId, calls>>
    /\ UNCHANGED retryVars
    /\ UNCHANGED <<throttleVars, waitVars>>

\* time passes
Tick ==
    /\ now < MaxTime
    /\ now' = now + 1
    /\ UNCHANGED <<delayArg, timers, nextHandle, timeoutId, calls, execs>>
    /\ UNCHANGED retryVars
    /\ UNCHANGED <<throttleVars, waitVars>>

DebounceNext ==
    \/ \E w \in Wrappers, args \in Args : DebouncedCall(w, args)
    \/ \E t \in timers : TimerFires(t)
    \/ Tick

(***************************************************************************)
(* throttle, lines 37-49.  fn is user code: it returns or throws, and      *)
(* while it runs it may call a throttled wrapper again.  Date.now() is the *)
(* wall clock: each reading is an input, no earlier than the reading       *)
(* before it.                                                              *)
(***************************************************************************)
DefaultInterval == 300

\* interval = 300, line 39
interval == IF intervalArg = Undefined THEN DefaultInterval ELSE intervalArg[1]

\* let lastTime = 0, line 41
InitialLastTime == 0

\* throttle(fn, interval) has returned each wrapper; nothing else is in use
ThrottleInit ==
    /\ intervalArg \in {Undefined} \cup {Given(d) : d \in 0..MaxInterval}
    /\ lastTime = [w \in Throttled |-> InitialLastTime]
    /\ stack = <<>>
    /\ tcalls = <<>>
    /\ texecs = <<>>
    /\ raised = 0
    /\ promises = <<>>
    /\ delayArg = Undefined
    /\ now = 0
    /\ timers = {}
    /\ nextHandle = 1
    /\ timeoutId = <<>>
    /\ calls = <<>>
    /\ execs = <<>>
    /\ options = [retries |-> 0, delayMs |-> Undefined, shouldRetry |-> Undefined]
    /\ pc = "done"
    /\ attempt = 0
    /\ log = <<>>
    /\ inFlight = 0
    /\ outcomes = <<>>

\* mutant: the test of line 44 left out
AllowedAlways(t, last, ivl) == TRUE

\* mutant: the window one ms short
AllowedOffByOne(t, last, ivl) == t - last >= ivl - 1

\* now - lastTime >= interval, line 44
Allowed(t, last, ivl) == t - last >= ivl

\* mutant: lastTime = now moved out of the if, every call restarts the window
LastTimeAlways(accepted, t, last) == t

\* mutant: lastTime = now not reached before fn runs or throws
LastTimeNever(accepted, t, last) == last

\* lastTime = now, line 45, inside the if of line 44 and before fn(...args)
LastTimeAfter(accepted, t, last) == IF accepted THEN t ELSE last

\* The wrapper w is called, by the host or by a running fn, when Date.now()
\* reads t: lines 43-46 up to the entry into fn.  The argument list of a call
\* is passed on unread, so each call is given its own: the call's number.
\* parent is the call whose fn made this call, 0 for a call by the host.
ThrottledCall(w, t) ==
    /\ Len(tcalls) < MaxThrottleCalls
    /\ LET accepted == Allowed(t, lastTime[w], interval)
           this == Len(tcalls) + 1
       IN  /\ lastTime' = [lastTime EXCEPT ![w] = LastTimeAfter(accepted, t, lastTime[w])]
           /\ tcalls' = Append(tcalls, [w |-> w, args |-> this, t |-> t,
                                        accepted |-> accepted,
                                        parent |-> IF stack = <<>> THEN 0
                                                   ELSE stack[Len(stack)]])
           /\ texecs' = IF accepted
                        THEN Append(texecs, [w |-> w, args |-> this, t |-> t])
                        ELSE texecs
           /\ stack' = IF accepted THEN Append(stack, this) ELSE stack
    /\ UNCHANGED <<intervalArg, raised>>
    /\ UNCHANGED <<retryVars, debounceVars, waitVars>>

\* the running fn returns: the wrapper call that ran it returns (line 48)
FnReturns ==
    /\ stack # <<>>
    /\ stack' = SubSeq(stack, 1, Len(stack) - 1)
    /\ UNCHANGED <<intervalArg, lastTime, tcalls, texecs, raised>>
    /\ UNCHANGED <<retryVars, debounceVars, waitVars>>

\* the running fn throws: nothing in the wrapper catches it, the exception
\* reaches the caller of the wrapper
FnThrows ==
    /\ stack # <<>>
    /\ stack' = SubSeq(stack, 1, Len(stack) - 1)
    /\ raised' = stack[Len(stack)]
    /\ UNCHANGED <<intervalArg, lastTime, tcalls, texecs>>
    /\ UNCHANGED <<retryVars, debounceVars, waitVars>>

\* what Date.now() read at the latest call
LastReading == IF tcalls = <<>> THEN 0 ELSE tcalls[Len(tcalls)].t

ThrottleNext ==
    \/ \E w \in DOMAIN lastTime, t \in LastReading..MaxClock : ThrottledCall(w, t)
    \/ FnReturns
    \/ FnThrows

(***************************************************************************)
(* wait, line 57: new Promise((resolve) => setTimeout(resolve, ms)).       *)
(***************************************************************************)
\* wait is about to be called; nothing else is in use
WaitInit ==
    /\ promises = <<>>
    /\ now = 0
    /\ timers = {}
    /\ nextHandle = 1
    /\ delayArg = Undefined
    /\ timeoutId = <<>>
    /\ calls = <<>>
    /\ execs = <<>>
    /\ intervalArg = Undefined
    /\ lastTime = <<>>
    /\ stack = <<>>
    /\ tcalls = <<>>
    /\ texecs = <<>>
    /\ raised = 0
    /\ options = [retries |-> 0, delayMs |-> Undefined, shouldRetry |-> Undefined]
    /\ pc = "done"
    /\ attempt = 0
    /\ log = <<>>
    /\ inFlight = 0
    /\ outcomes = <<>>

\* new Promise(executor): pending once the executor, which only calls
\* setTimeout, has returned; h is the handle of its timer
NewPromise(ms, h) ==
    [ms |-> ms, calledAt |-> now, timer |-> h, state |-> "pending",
     value |-> "none", settledAt |-> now, resolved |-> 0]

\* resolve() is called with no argument at time t: a pending promise is
\* fulfilled with undefined, a settled one stays as it is
Resolve(p, t) ==
    IF p.state = "pending"
    THEN [p EXCEPT !.state = "fulfilled", !.value = "undefined", !.settledAt = t,
                   !.resolved = p.resolved + 1]
    ELSE [p EXCEPT !.resolved = p.resolved + 1]

\* wait(ms) is called and returns its promise
WaitCall(ms) ==
    /\ Len(promises) < MaxWaits
    /\ timers' = SetTimeout(timers, nextHandle, "wait", "resolve", ms)
    /\ promises' = Append(promises, NewPromise(ms, nextHandle))
    /\ nextHandle' = nextHandle + 1
    /\ UNCHANGED <<delayArg, now, timeoutId, calls, execs>>
    /\ UNCHANGED <<retryVars, throttleVars>>

\* the runtime runs the callback of a wait timer whose time has come: resolve
WaitTimerFires(t) ==
    /\ t \in timers
    /\ t.due <= now
    /\ timers' = timers \ {t}
    /\ promises' = [i \in 1..Len(promises) |->
                       IF promises[i].timer = t.id THEN Resolve(promises[i], now)
                       ELSE promises[i]]
    /\ UNCHANGED <<delayArg, now, nextHandle, timeoutId, calls, execs>>
    /\ UNCHANGED <<retryVars, throttleVars>>

WaitNext ==
    \/ \E ms \in (0 - 1)..MaxWaitMs : WaitCall(ms)
    \/ \E t \in timers : WaitTimerFires(t)
    \/ Tick

(***************************************************************************)
(* Specifications.  Each one runs one operator and leaves the state of the *)
(* others as constructed.                                                  *)
(***************************************************************************)
RetrySpec == RetryInit /\ [][RetryNext]_vars

\* fn settles and the runtime fires timers: every enabled step is eventually taken
RetryFairSpec == RetrySpec /\ WF_vars(RetryNext)

DebounceSpec == DebounceInit /\ [][DebounceNext]_vars

ThrottleSpec == ThrottleInit /\ [][ThrottleNext]_vars

WaitSpec == WaitInit /\ [][WaitNext]_vars

\* the host made two wrappers with one factory, debounce or throttle, called
\* twice with the same arguments
FactoryInit == DebounceInit \/ ThrottleInit

FactoryNext ==
    \/ timeoutId # <<>> /\ DebounceNext
    \/ lastTime # <<>> /\ ThrottleNext

FactorySpec == FactoryInit /\ [][FactoryNext]_vars

(***************************************************************************)
(* Reading the history of a retry call.                                    *)
(***************************************************************************)
Positions(kind) == {i \in 1..Len(log) : log[i].ev = kind}

rejects == CountEv(log, "reject")

FnSucceeded == Positions("resolve") # {}

\* shouldRetry returns true for every failure value
AlwaysRetries == \A e \in Errors : shouldRetry[e] = "true"

\* the failure value of the last failed attempt so far
LastRejected == log[CHOOSE i \in Positions("reject") : \A j \in Positions("reject") : j <= i].val

Success(v) == [kind |-> "success", val |-> v]
Failure(e) == [kind |-> "failure", val |-> e]

(***************************************************************************)
(* C1: with retries >= 0 and a shouldRetry that returns true, a call whose *)
(* fn fails k <= retries times and then succeeds resolves with the value   *)
(* of the successful attempt, after exactly k+1 invocations of fn and      *)
(* exactly k waits of delayMs; the call is not ended by any of the k       *)
(* failures, and nothing follows the success but the return.               *)
(***************************************************************************)
C1_SucceedsAfterKFailures ==
    (retries >= 0 /\ AlwaysRetries) =>
        /\ (~FnSucceeded /\ rejects <= retries) => pc # "done"
        /\ FnSucceeded =>
              /\ rejects <= retries
              /\ pc = "done"
              /\ Len(log) >= 2
              /\ log[Len(log) - 1].ev = "resolve"
              /\ log[Len(log)] = EvReturn(log[Len(log) - 1].val)
              /\ outcomes = <<Success(log[Len(log) - 1].val)>>
              /\ fnCalls = rejects + 1
              /\ waits = rejects
              /\ \A i \in Positions("wait") : log[i].ms = delayMs

\* retries = 3, fn fails twice and succeeds on the third attempt
C1_Witness ==
    /\ retries = 3
    /\ AlwaysRetries
    /\ FnSucceeded
    /\ rejects = 2
    /\ outcomes = <<Success("v2")>>

(***************************************************************************)
(* C2: with retries >= 0 and a shouldRetry that returns true, a call whose *)
(* fn fails on every attempt ends after exactly retries+1 invocations of   *)
(* fn, failing with the failure value of the last attempt, unchanged; with *)
(* retries = 0 the single failure ends the call with no wait.              *)
(***************************************************************************)
C2_ExhaustionSurfacesLastFailure ==
    (retries >= 0 /\ AlwaysRetries /\ pc = "done" /\ ~FnSucceeded) =>
        /\ fnCalls = retries + 1
        /\ rejects = retries + 1
        /\ outcomes = <<Failure(LastRejected)>>
        /\ LastRejected \in Errors
        /\ log[Len(log)] = EvThrow(LastRejected)
        /\ log[Len(log) - 1] = EvReject(LastRejected)
        /\ retries = 0 => (fnCalls = 1 /\ waits = 0 /\ Len(log) = 3)

\* retries = 2, the attempts fail with e1, e1, e2: the call fails with e2
C2_Witness ==
    /\ retries = 2
    /\ AlwaysRetries
    /\ pc = "done"
    /\ rejects = 3
    /\ \E i \in Positions("reject") : log[i].val = "e1"
    /\ outcomes = <<Failure("e2")>>

(***************************************************************************)
(* C3: a failure e of fn for which shouldRetry(e) returns false ends the   *)
(* call at once with e itself, whatever budget remains: no invocation of   *)
(* fn and no wait follows it; with a constant-false shouldRetry and a fn   *)
(* that always fails there is one attempt and no wait.                     *)
(***************************************************************************)
C3_PredicateRejectionIsTerminal ==
    /\ \A i \in Positions("reject") :
          shouldRetry[log[i].val] = "false" =>
              /\ pc = "done"
              /\ outcomes = <<Failure(log[i].val)>>
              /\ log[Len(log)] = EvThrow(log[i].val)
              /\ \A j \in (i + 1)..Len(log) : log[j].ev \notin {"call", "wait"}
    /\ ((\A e \in Errors : shouldRetry[e] = "false") /\ pc = "done" /\ ~FnSucceeded
            /\ retries >= 0)
          => (fnCalls = 1 /\ waits = 0)

\* retries = 3, e1 is retried, e2 is not: the second attempt fails with e2
C3_Witness ==
    /\ retries = 3
    /\ shouldRetry["e1"] = "true"
    /\ shouldRetry["e2"] = "false"
    /\ rejects = 2
    /\ attempt = 1
    /\ outcomes = <<Failure("e2")>>

(***************************************************************************)
(* C4: a wait of delayMs happens only right after a failure that           *)
(* shouldRetry accepted for retry, and is followed by the next invocation  *)
(* of fn: none before the first invocation, none after the success or the  *)
(* terminal failure.                                                       *)
(***************************************************************************)
C4_DelayOnlyBetweenAttempts ==
    /\ \A i \in Positions("wait") :
          /\ i >= 4
          /\ log[i].ms = delayMs
          /\ log[i - 1].ev = "shouldRetry"
          /\ shouldRetry[log[i - 1].val] = "true"
          /\ log[i - 2] = EvReject(log[i - 1].val)
          /\ \E j \in Positions("call") : j < i
          /\ IF i = Len(log)
             THEN pc = "awaitWait"
             ELSE Len(log) >= i + 2 /\ log[i + 1] = EvWake /\ log[i + 2] = EvCall
    /\ \A i \in Positions("return") \cup Positions("throw") : i = Len(log)

\* two waits, then the third attempt fails for good: no third wait
C4_Witness ==
    /\ retries = 2
    /\ pc = "done"
    /\ waits = 2
    /\ rejects = 3
    /\ log[Len(log)].ev = "throw"

(***************************************************************************)
(* C5: shouldRetry is evaluated only right after a failure of fn, on that  *)
(* failure, and only while attempt < retries: never after a success, never *)
(* for the failure of the attempt at which attempt = retries.              *)
(***************************************************************************)
WaitsBefore(i) == CountEv(SubSeq(log, 1, i), "wait")

C5_PredicateOnlyWithinBudget ==
    /\ \A i \in Positions("shouldRetry") :
          /\ i >= 2
          /\ log[i - 1] = EvReject(log[i].val)
          /\ WaitsBefore(i) < retries
    /\ \A i \in Positions("reject") :
          WaitsBefore(i) = retries => log[i + 1] = EvThrow(log[i].val)
    /\ \A i \in Positions("resolve") :
          \A j \in Positions("shouldRetry") : j < i
    /\ retries >= 0 => predCalls <= retries

\* retries = 1: the first failure is put to shouldRetry, the second is not
C5_Witness ==
    /\ retries = 1
    /\ pc = "done"
    /\ rejects = 2
    /\ predCalls = 1

(***************************************************************************)
(* C6: at most one invocation of fn is in flight, and every invocation but *)
(* the first starts only after the previous one failed and the wait that   *)
(* followed has completed.                                                 *)
(***************************************************************************)
C6_AttemptsSequential ==
    /\ inFlight \in {0, 1}
    /\ inFlight = fnCalls - rejects - CountEv(log, "resolve")
    /\ inFlight = 1 <=> pc = "awaitFn"
    /\ \A i \in Positions("call") :
          i > 1 =>
              /\ i >= 6
              /\ log[i - 1] = EvWake
              /\ log[i - 2].ev = "wait"
              /\ log[i - 3].ev = "shouldRetry"
              /\ log[i - 4].ev = "reject"
              /\ log[i - 5] = EvCall

\* the third invocation of fn is in flight
C6_Witness ==
    /\ pc = "awaitFn"
    /\ fnCalls = 3
    /\ inFlight = 1

(***************************************************************************)
(* C7: with retries >= 0, given that fn settles and timers fire, the call  *)
(* reaches exactly one outcome, a success or a failure, never a second     *)
(* one, and does nothing after it.                                         *)
(***************************************************************************)
C7_ExactlyOneOutcome ==
    /\ (retries >= 0) => <>(pc = "done" /\ Len(outcomes) = 1)
    /\ [](Len(outcomes) <= 1)
    /\ [](Len(outcomes) = 1 =>
            /\ pc = "done"
            /\ outcomes[1].kind \in {"success", "failure"}
            /\ log[Len(log)].ev = (IF outcomes[1].kind = "success" THEN "return" ELSE "throw")
            /\ log[Len(log)].val = outcomes[1].val)
    /\ [][Len(outcomes) = 1 => UNCHANGED <<log, outcomes, inFlight>>]_vars

\* a call that ended after two waits
C7_Witness ==
    /\ retries >= 2
    /\ pc = "done"
    /\ waits = 2
    /\ Len(outcomes) = 1

(***************************************************************************)
(* C8: with retries >= 0 the loop is never left without an outcome, so     *)
(* "Retry failed unexpectedly" is never thrown.  As claimed: and every     *)
(* failure of the call is a failure value produced by fn.                  *)
(***************************************************************************)
RejectedValues == {log[i].val : i \in Positions("reject")}

C8_Original ==
    (retries >= 0) =>
        /\ Positions("throw") # {} => log[Len(log)].val # Unexpected
        /\ \A i \in 1..Len(outcomes) :
              outcomes[i].kind = "failure" => outcomes[i].val \in RejectedValues

(***************************************************************************)
(* C8, amended: with retries >= 0 "Retry failed unexpectedly" is never     *)
(* thrown, and every failure of the call is a failure value produced by fn *)
(* or the exception thrown by shouldRetry when evaluated on such a value.  *)
(***************************************************************************)
C8_NoInvariantViolation ==
    (retries >= 0) =>
        /\ \A i \in Positions("throw") : log[i].val # Unexpected
        /\ \A i \in 1..Len(outcomes) :
              outcomes[i].kind = "failure" =>
                  /\ outcomes[i].val # Unexpected
                  /\ \/ outcomes[i].val \in RejectedValues
                     \/ /\ outcomes[i].val = PredError
                        /\ log[Len(log) - 1].ev = "shouldRetry"
                        /\ shouldRetry[log[Len(log) - 1].val] = "throw"

\* the budget of 3 retries is used up: the loop ends by the throw of line 84
C8_Witness ==
    /\ retries = 3
    /\ attempt = 3
    /\ pc = "done"
    /\ rejects = 4
    /\ outcomes = <<Failure(LastRejected)>>

(***************************************************************************)
(* Reading the history of the debounced wrappers.                          *)
(***************************************************************************)
CallsOf(w) == SelectSeq(calls, LAMBDA c : c.w = w)

ExecsOf(w) == SelectSeq(execs, LAMBDA e : e.w = w)

\* the scheduled, not yet run invocations of fn owned by wrapper w
PendingOf(w) == {t \in timers : t.owner = w}

LastCallOf(w) == CallsOf(w)[Len(CallsOf(w))]

\* every call of w came less than delay ms after the previous call of w
Burst(w) ==
    \A i \in 2..Len(CallsOf(w)) : CallsOf(w)[i].t - CallsOf(w)[i - 1].t < delay

(***************************************************************************)
(* C9: each wrapper owns at most one scheduled, not yet run invocation of  *)
(* fn: the one its latest call scheduled, every earlier one having been    *)
(* cancelled by the call that followed it.                                 *)
(***************************************************************************)
C9_AtMostOnePending ==
    \A w \in Wrappers :
        /\ Cardinality(PendingOf(w)) <= 1
        /\ \A t \in PendingOf(w) :
              /\ t.id = timeoutId[w]
              /\ CallsOf(w) # <<>>
              /\ t.args = LastCallOf(w).args

\* w1 was called three times, its first two invocations were cancelled
C9_Witness ==
    /\ Len(CallsOf("w1")) = 3
    /\ Cardinality(PendingOf("w1")) = 1
    /\ execs = <<>>
    /\ now > 0

(***************************************************************************)
(* C10 as claimed: after N >= 1 calls of a wrapper, each less than delay   *)
(* ms after the previous one, fn is executed exactly once, with the        *)
(* arguments of the last call, at delay ms after the last call, and never  *)
(* synchronously by a call.                                                *)
(***************************************************************************)
BurstRunsOnce(w) ==
    /\ Len(ExecsOf(w)) <= 1
    /\ \A i \in 1..Len(ExecsOf(w)) :
          /\ ExecsOf(w)[i].args = LastCallOf(w).args
          /\ ExecsOf(w)[i].by = "timer"
    /\ PendingOf(w) =
          IF ExecsOf(w) = <<>>
          THEN {[id |-> timeoutId[w], owner |-> w, args |-> LastCallOf(w).args,
                 due |-> LastCallOf(w).t + delay]}
          ELSE {}

C10_Original ==
    \A w \in Wrappers :
        (CallsOf(w) # <<>> /\ Burst(w)) =>
            /\ BurstRunsOnce(w)
            /\ \A i \in 1..Len(ExecsOf(w)) : ExecsOf(w)[i].t = LastCallOf(w).t + delay

(***************************************************************************)
(* C10, amended: after N >= 1 calls of a wrapper, each less than delay ms  *)
(* after the previous one, fn is executed exactly once, with the arguments *)
(* of the last call, no earlier than delay ms after the last call (the     *)
(* timer is set for that time and may fire late), and never synchronously  *)
(* by a call.                                                              *)
(***************************************************************************)
C10_BurstRunsLastCallOnce ==
    \A w \in Wrappers :
        (CallsOf(w) # <<>> /\ Burst(w)) =>
            /\ BurstRunsOnce(w)
            /\ \A i \in 1..Len(ExecsOf(w)) : ExecsOf(w)[i].t >= LastCallOf(w).t + delay

\* delay = 2, w1 is called at 0 with a and at 1 with b; fn runs once, with b, at 3
C10_Witness ==
    /\ delay = 2
    /\ Len(CallsOf("w1")) = 2
    /\ CallsOf("w1")[1] = [w |-> "w1", args |-> "a", t |-> 0]
    /\ CallsOf("w1")[2] = [w |-> "w1", args |-> "b", t |-> 1]
    /\ ExecsOf("w1") = <<[w |-> "w1", args |-> "b", t |-> 3, by |-> "timer"]>>

(***************************************************************************)
(* Reading the history of the throttled wrappers.                          *)
(***************************************************************************)
\* the calls of wrapper w, by their numbers
TCallsOf(w) == {i \in 1..Len(tcalls) : tcalls[i].w = w}

\* the accepted calls of wrapper w
AcceptedOf(w) == {i \in TCallsOf(w) : tcalls[i].accepted}

TExecsOf(w) == SelectSeq(texecs, LAMBDA e : e.w = w)

Latest(S) == CHOOSE i \in S : \A j \in S : j <= i

Earliest(S) == CHOOSE i \in S : \A j \in S : i <= j

\* the accepted calls of w made before call i
AcceptedBefore(w, i) == {j \in AcceptedOf(w) : j < i}

(***************************************************************************)
(* C11: any two executions of fn by one throttled wrapper are at least     *)
(* interval ms apart by the clock, so no window of length interval (from   *)
(* an instant up to, not including, interval ms later) holds two of them.  *)
(***************************************************************************)
C11_AtMostOncePerInterval ==
    \A w \in DOMAIN lastTime :
        \A i, j \in 1..Len(TExecsOf(w)) :
            i < j => TExecsOf(w)[j].t - TExecsOf(w)[i].t >= interval

\* interval = 2: t1 runs fn at 2 and at 4, a call at 3 in between is dropped
C11_Witness ==
    /\ interval = 2
    /\ Len(TExecsOf("t1")) = 2
    /\ TExecsOf("t1")[1].t = 2
    /\ TExecsOf("t1")[2].t = 4
    /\ \E i \in TCallsOf("t1") : tcalls[i].t = 3 /\ ~tcalls[i].accepted

(***************************************************************************)
(* C12: the first call ever made to a throttled wrapper executes fn,       *)
(* whatever the interval and whatever the clock reads at that call.        *)
(***************************************************************************)
C12_FirstCallExecutes ==
    \A w \in DOMAIN lastTime :
        TCallsOf(w) # {} => tcalls[Earliest(TCallsOf(w))].accepted

(***************************************************************************)
(* C13: throttle is leading-edge and never queues.  fn is executed only    *)
(* inside an accepted call, at once and with that call's arguments, so the *)
(* executions are exactly the accepted calls; a call whose reading falls   *)
(* in the window opened by the latest accepted call is dropped, nothing is *)
(* scheduled for it, and the accepted call is the earliest call of its     *)
(* window.                                                                 *)
(***************************************************************************)
InWindowOf(i, t) == tcalls[i].t <= t /\ t < tcalls[i].t + interval

AcceptedCalls == SelectSeq(tcalls, LAMBDA c : c.accepted)

C13_LeadingEdgeNoQueue ==
    /\ [](/\ timers = {}
          /\ Len(texecs) = Len(AcceptedCalls)
          /\ \A k \in 1..Len(texecs) :
                texecs[k] = [w |-> AcceptedCalls[k].w, args |-> AcceptedCalls[k].args,
                             t |-> AcceptedCalls[k].t]
          /\ \A w \in DOMAIN lastTime : \A i \in AcceptedOf(w) : \A j \in TCallsOf(w) :
                /\ (j > i /\ i = Latest(AcceptedBefore(w, j) \cup {i})
                       /\ InWindowOf(i, tcalls[j].t)) => ~tcalls[j].accepted
                /\ InWindowOf(i, tcalls[j].t) => j >= i)
    /\ [][texecs' # texecs =>
            /\ Len(tcalls') = Len(tcalls) + 1
            /\ tcalls'[Len(tcalls')].accepted
            /\ texecs' = Append(texecs, [w |-> tcalls'[Len(tcalls')].w,
                                         args |-> tcalls'[Len(tcalls')].args,
                                         t |-> tcalls'[Len(tcalls')].t])]_vars

\* interval = 2: t1 is called at 2, 3 and 4; the calls at 2 and 4 run fn
C13_Witness ==
    /\ interval = 2
    /\ Len(tcalls) = 3
    /\ TCallsOf("t1") = {1, 2, 3}
    /\ tcalls[1].t = 2 /\ tcalls[2].t = 3 /\ tcalls[3].t = 4
    /\ AcceptedOf("t1") = {1, 3}
    /\ texecs = <<[w |-> "t1", args |-> 1, t |-> 2], [w |-> "t1", args |-> 3, t |-> 4]>>

(***************************************************************************)
(* C17: the interval is measured from the last accepted call.  lastTime is *)
(* the reading of the wrapper's latest accepted call (a dropped call does  *)
(* not change it), and a call made interval ms or more after the latest    *)
(* accepted call is accepted, whatever calls were dropped in between.      *)
(***************************************************************************)
C17_MeasuredFromLastAccepted ==
    \A w \in DOMAIN lastTime :
        /\ lastTime[w] = IF AcceptedOf(w) = {} THEN InitialLastTime
                         ELSE tcalls[Latest(AcceptedOf(w))].t
        /\ \A j \in TCallsOf(w) :
              AcceptedBefore(w, j) # {} =>
                  (tcalls[j].t - tcalls[Latest(AcceptedBefore(w, j))].t >= interval
                      => tcalls[j].accepted)

\* interval = 2: accepted at 2, dropped at 3, accepted at 4, one ms after the drop
C17_Witness ==
    /\ interval = 2
    /\ TCallsOf("t2") = {1, 2, 3}
    /\ tcalls[1].t = 2 /\ tcalls[1].accepted
    /\ tcalls[2].t = 3 /\ ~tcalls[2].accepted
    /\ tcalls[3].t = 4 /\ tcalls[3].accepted
    /\ lastTime["t2"] = 4

(***************************************************************************)
(* C18: lastTime is set before fn runs.  While the fn of an accepted call  *)
(* runs, and after it ended by an exception, lastTime is the reading of    *)
(* that call (or of a later accepted one); the exception leaves lastTime   *)
(* as it is; and with interval > 0 a call of the same wrapper within       *)
(* interval ms of it is dropped, a call made by the running fn included.   *)
(***************************************************************************)
Consumed(i) ==
    /\ tcalls[i].accepted
    /\ lastTime[tcalls[i].w] = tcalls[Latest(AcceptedOf(tcalls[i].w))].t
    /\ lastTime[tcalls[i].w] >= tcalls[i].t
    /\ interval > 0 =>
          \A j \in TCallsOf(tcalls[i].w) :
              (j > i /\ InWindowOf(i, tcalls[j].t)) => ~tcalls[j].accepted

C18_WindowConsumedBeforeFnRuns ==
    /\ [](/\ \A k \in 1..Len(stack) : Consumed(stack[k])
          /\ raised # 0 => Consumed(raised)
          /\ \A j \in 1..Len(tcalls) :
                (interval > 0 /\ tcalls[j].parent # 0
                   /\ tcalls[j].w = tcalls[tcalls[j].parent].w
                   /\ InWindowOf(tcalls[j].parent, tcalls[j].t)) => ~tcalls[j].accepted)
    /\ [][raised' # raised =>
            /\ stack # <<>>
            /\ raised' = stack[Len(stack)]
            /\ stack' = SubSeq(stack, 1, Len(stack) - 1)
            /\ lastTime' = lastTime]_vars

\* interval = 2: the fn of the call at 2 calls the wrapper again at 3 (dropped)
\* and throws; the next call, at 3, is dropped as well
C18_Witness ==
    /\ interval = 2
    /\ TCallsOf("t1") = {1, 2, 3}
    /\ tcalls[1].t = 2 /\ tcalls[1].accepted
    /\ tcalls[2].t = 3 /\ tcalls[2].parent = 1 /\ ~tcalls[2].accepted
    /\ raised = 1
    /\ tcalls[3].t = 3 /\ tcalls[3].parent = 0 /\ ~tcalls[3].accepted
    /\ lastTime["t1"] = 2

(***************************************************************************)
(* C15: the promise of wait(ms) is fulfilled exactly once, with undefined, *)
(* never rejected, and not before ms ms have passed since the call; also   *)
(* for ms <= 0 it is still pending when wait returns and is fulfilled only *)
(* by a later step of the runtime.                                         *)
(***************************************************************************)
TimersOf(p) == {t \in timers : t.id = p.timer}

C15_WaitResolvesOnceAfterMs ==
    /\ [](\A i \in 1..Len(promises) :
            LET p == promises[i]
            IN  /\ p.state \in {"pending", "fulfilled"}
                /\ p.state = "pending" =>
                      /\ p.resolved = 0
                      /\ p.value = "none"
                      /\ TimersOf(p) = {[id |-> p.timer, owner |-> "wait", args |-> "resolve",
                                          due |-> p.calledAt + p.ms]}
                /\ p.state = "fulfilled" =>
                      /\ p.resolved = 1
                      /\ p.value = "undefined"
                      /\ p.settledAt - p.calledAt >= p.ms
                      /\ p.settledAt >= p.calledAt
                      /\ TimersOf(p) = {})
    /\ [][/\ Len(promises') > Len(promises) =>
                promises'[Len(promises')].state = "pending"
          /\ \A i \in 1..Len(promises) :
                promises[i].state = "fulfilled" => promises'[i] = promises[i]]_vars

\* wait(-1) and wait(2), both called at 0: fulfilled at 0 and at 2
C15_Witness ==
    /\ Len(promises) = 2
    /\ promises[1].ms = 0 - 1
    /\ promises[1].state = "fulfilled"
    /\ promises[1].settledAt = 0
    /\ promises[2].ms = 2
    /\ promises[2].state = "fulfilled"
    /\ promises[2].calledAt = 0
    /\ promises[2].settledAt = 2

(***************************************************************************)
(* C14: two wrappers made by the same factory with the same arguments do   *)
(* not interfere.  A call of one debounced wrapper leaves the handle and   *)
(* the pending invocation of the other as they are; a call of one          *)
(* throttled wrapper leaves the lastTime of the other as it is, and        *)
(* whether a call of a throttled wrapper is accepted is decided by the     *)
(* earlier calls of that wrapper alone.                                    *)
(***************************************************************************)
\* the reading lastTime holds for w when call j is made, from w's own calls
OwnLastTime(w, j) ==
    IF AcceptedBefore(w, j) = {} THEN InitialLastTime
    ELSE tcalls[Latest(AcceptedBefore(w, j))].t

C14_WrappersIndependent ==
    /\ [](\A w \in DOMAIN lastTime : \A j \in TCallsOf(w) :
            tcalls[j].accepted <=> (tcalls[j].t - OwnLastTime(w, j) >= interval))
    /\ [][/\ Len(calls') > Len(calls) =>
                \A w \in DOMAIN timeoutId :
                    w # calls'[Len(calls')].w =>
                        /\ timeoutId'[w] = timeoutId[w]
                        /\ {t \in timers' : t.owner = w} = PendingOf(w)
          /\ Len(tcalls') > Len(tcalls) =>
                \A w \in DOMAIN lastTime :
                    w # tcalls'[Len(tcalls')].w => lastTime'[w] = lastTime[w]]_vars

\* w1 is called, then w2, then w2 again: the invocation w1 scheduled is still
\* pending, under the handle w1 was given
C14_Witness ==
    /\ Len(calls) = 3
    /\ calls[1].w = "w1" /\ calls[2].w = "w2" /\ calls[3].w = "w2"
    /\ execs = <<>>
    /\ timeoutId = [w \in Wrappers |-> IF w = "w1" THEN 1 ELSE 3]
    /\ PendingOf("w1") = {[id |-> 1, owner |-> "w1", args |-> calls[1].args,
                           due |-> calls[1].t + delay]}
    /\ Cardinality(PendingOf("w2")) = 1

(***************************************************************************)
(* C16: in a call with retries >= 0 the counter attempt stays within       *)
(* 0..retries; it starts at 0 and changes only by an increment of one,     *)
(* made when an attempt has failed and a wait for the next one begins; it  *)
(* equals the number of waits started, and while fn is in flight the       *)
(* number of invocations of fn started minus one.                          *)
(***************************************************************************)
C16_AttemptCounter ==
    /\ [](retries >= 0 =>
            /\ attempt \in 0..retries
            /\ attempt = waits
            /\ pc = "start" => attempt = 0
            /\ pc = "awaitFn" => attempt = fnCalls - 1)
    /\ [][(retries >= 0 /\ attempt' # attempt) =>
            /\ attempt' = attempt + 1
            /\ pc = "awaitFn" /\ pc' = "awaitWait"
            /\ Len(log') = Len(log) + 3
            /\ log'[Len(log) + 1].ev = "reject"
            /\ log'[Len(log) + 2].ev = "shouldRetry"
            /\ log'[Len(log) + 3] = EvWait(delayMs)]_vars

\* the fourth attempt of a call with retries = 3 is in flight: attempt = 3
C16_Witness ==
    /\ retries = 3
    /\ attempt = 3
    /\ pc = "awaitFn"
    /\ fnCalls = 4
    /\ waits = 3

(***************************************************************************)
(* C19: a call with retries < 0 never invokes fn, never evaluates          *)
(* shouldRetry, never waits, and fails with "Retry failed unexpectedly".   *)
(***************************************************************************)
C19_NegativeRetriesFailUnexpectedly ==
    retries < 0 =>
        /\ fnCalls = 0
        /\ predCalls = 0
        /\ waits = 0
        /\ attempt = 0
        /\ inFlight = 0
        /\ pc \in {"start", "done"}
        /\ pc = "start" => (log = <<>> /\ outcomes = <<>>)
        /\ pc = "done" =>
              /\ log = <<EvThrow(Unexpected)>>
              /\ outcomes = <<Failure(Unexpected)>>

\* the call with retries = -1 has ended
C19_Witness ==
    /\ retries < 0
    /\ pc = "done"
    /\ outcomes = <<Failure(Unexpected)>>

(***************************************************************************)
(* C20: when shouldRetry throws on a failure e of fn, the call ends there  *)
(* with the exception of shouldRetry and not with e: no invocation of fn   *)
(* and no wait follows, and attempt is not incremented.                    *)
(***************************************************************************)
C20_ThrowingPredicateIsTerminal ==
    \A i \in Positions("shouldRetry") :
        shouldRetry[log[i].val] = "throw" =>
            /\ pc = "done"
            /\ inFlight = 0
            /\ Len(log) = i + 1
            /\ log[i + 1] = EvThrow(PredError)
            /\ PredError # log[i].val
            /\ outcomes = <<Failure(PredError)>>
            /\ attempt = WaitsBefore(i)
            /\ fnCalls = WaitsBefore(i) + 1

\* retries = 3, e1 is retried, shouldRetry throws on e2: the second attempt
\* fails with e2 and the call ends with the exception of shouldRetry
C20_Witness ==
    /\ retries = 3
    /\ shouldRetry["e1"] = "true"
    /\ shouldRetry["e2"] = "throw"
    /\ rejects = 2
    /\ attempt = 1
    /\ fnCalls = 2
    /\ outcomes = <<Failure(PredError)>>

=============================================================================
